---- MODULE Spec2Model ----
(***************************************************************************)
(* Model of app/services/opin_persistence/processor.py: the derivation of  *)
(* validation rules from the schemas of an OpenAPI YAML document and their *)
(* persistence as group / dataset / rule rows.                             *)
(*                                                                         *)
(* Python values are modelled as follows.                                  *)
(*   dict       a record holding exactly the keys that are present         *)
(*              ("$ref" is written ref); `k in d` is  k \in DOMAIN d       *)
(*   None       the record PyNone                                          *)
(*   properties an insertion-ordered dict: [keys |-> <<..>>, vals |-> <<..>>] *)
(*   list       a sequence                                                 *)
(*   str        a string; a string whose inner structure the code inspects *)
(*              (a $ref, a path) is the sequence of its pieces, cut so     *)
(*              that "/" and every name the code looks for is a piece      *)
(*   raise      the value Raise in place of Ok(v)                          *)
(***************************************************************************)
EXTENDS Integers, Sequences, FiniteSets, TLC

VARIABLES
    store,   \* the rows of the three tables
    last,    \* the locals of the latest sequential invocation, at its return
    prev,    \* the store and the return value before the latest invocation
    runs,    \* the number of sequential invocations made
    procs,   \* the locals of each concurrent invocation
    cf       \* one application of the field classifier

vars == <<store, last, prev, runs, procs, cf>>

(***************************************************************************)
(* Python primitives                                                       *)
(***************************************************************************)
PyNone == [none |-> TRUE]

IsNone(x) == x = PyNone

Has(d, k) == k \in DOMAIN d

Ok(v) == [ok |-> TRUE, val |-> v]

Raise == [ok |-> FALSE]

\* enum literals: a YAML scalar is a string, an integer or a boolean
EnumStr(s) == [s |-> s]

EnumInt(n) == [n |-> n]

EnumBool(b) == [b |-> b]

RECURSIVE DecimalLen(_)
\* len(str(n)) of an integer n
DecimalLen(n) ==
    IF n < 0 THEN 1 + DecimalLen(0 - n)
    ELSE IF n < 10 THEN 1
    ELSE 1 + DecimalLen(n \div 10)

\* len(str(e)) of an enum literal e
PyStrLen(e) ==
    IF Has(e, "s") THEN Len(e.s)
    ELSE IF Has(e, "n") THEN DecimalLen(e.n)
    ELSE IF Has(e, "b") THEN (IF e.b THEN 4 ELSE 5)
    ELSE 4

\* str.startswith, str.endswith and the substring test `sub in s`, on pieces
StartsWith(s, prefix) ==
    Len(s) >= Len(prefix) /\ SubSeq(s, 1, Len(prefix)) = prefix

EndsWith(s, suffix) ==
    Len(s) >= Len(suffix) /\ SubSeq(s, Len(s) - Len(suffix) + 1, Len(s)) = suffix

Contains(s, sub) ==
    \E i \in 0..(Len(s) - Len(sub)) : SubSeq(s, i + 1, i + Len(sub)) = sub

\* the part of s after its last piece p (all of s when p does not occur)
AfterLast(s, p) ==
    LET at == {i \in 1..Len(s) : s[i] = p}
        cut == IF at = {} THEN 0 ELSE CHOOSE i \in at : \A j \in at : j <= i
    IN SubSeq(s, cut + 1, Len(s))

\* str.lower, piece by piece (the only pieces of the model with upper case)
LowerPiece(p) ==
    CASE p = "Insurance" -> "insurance"
      [] p = "Person" -> "person"
      [] OTHER -> p

PyLower(s) == [i \in 1..Len(s) |-> LowerPiece(s[i])]

\* insertion-ordered dict
EmptyDict == [keys |-> <<>>, vals |-> <<>>]

DictHas(d, k) == \E i \in 1..Len(d.keys) : d.keys[i] = k

DictGet(d, k) == d.vals[CHOOSE i \in 1..Len(d.keys) : d.keys[i] = k]

\* d[k] = v: an existing key keeps its place, a new key goes last
DictSet(d, k, v) ==
    IF DictHas(d, k)
    THEN [d EXCEPT !.vals[CHOOSE i \in 1..Len(d.keys) : d.keys[i] = k] = v]
    ELSE [keys |-> Append(d.keys, k), vals |-> Append(d.vals, v)]

\* d.get(k, default) of a plain dict
Get(d, k, default) == IF Has(d, k) THEN d[k] ELSE default

\* d[k] = v of a plain dict
SetKey(d, k, v) == [x \in DOMAIN d \cup {k} |-> IF x = k THEN v ELSE d[x]]

RECURSIVE PyMax(_)
\* max() of a non-empty list of integers
PyMax(s) ==
    IF Len(s) = 1 THEN s[1]
    ELSE LET m == PyMax(Tail(s)) IN IF s[1] >= m THEN s[1] ELSE m

(***************************************************************************)
(* Field classifier                                                        *)
(***************************************************************************)
DefaultStringSize == 100

NumericSize == 10

MinimumSize == 1

extract_field_type(field_data) ==
    IF IsNone(field_data) THEN Raise
    ELSE IF Has(field_data, "type") THEN Ok(field_data.type)
    ELSE IF Has(field_data, "ref") THEN Ok("string")
    ELSE Ok("string")

\* calculate_field_size with the enum looked at before maxLength
calculate_field_size_enum_first(field_name, field_data) ==
    LET field_type == extract_field_type(field_data) IN
    IF ~field_type.ok THEN Raise
    ELSE IF field_type.val = "string" THEN
        IF Has(field_data, "enum") THEN
            Ok(IF field_data.enum # <<>>
               THEN PyMax([i \in 1..Len(field_data.enum) |-> PyStrLen(field_data.enum[i])])
               ELSE 0)
        ELSE IF Has(field_data, "maxLength") THEN Ok(field_data.maxLength)
        ELSE Ok(DefaultStringSize)
    ELSE IF field_type.val \in {"number", "integer"} THEN Ok(NumericSize)
    ELSE Ok(MinimumSize)

calculate_field_size(field_name, field_data) ==
    LET field_type == extract_field_type(field_data) IN
    IF ~field_type.ok THEN Raise
    ELSE IF field_type.val = "string" THEN
        IF Has(field_data, "maxLength") THEN Ok(field_data.maxLength)
        ELSE IF Has(field_data, "enum") THEN
            Ok(IF field_data.enum # <<>>
               THEN PyMax([i \in 1..Len(field_data.enum) |-> PyStrLen(field_data.enum[i])])
               ELSE 0)
        ELSE Ok(DefaultStringSize)
    ELSE IF field_type.val \in {"number", "integer"} THEN Ok(NumericSize)
    ELSE Ok(MinimumSize)

(***************************************************************************)
(* Insurance category                                                      *)
(***************************************************************************)
is_insurance_related_file(yaml_path) ==
    LET basename == PyLower(AfterLast(yaml_path, "/"))
        special_files == {<<"person", ".yaml">>, <<"resources_v2", ".yaml">>}
    IN IF StartsWith(basename, <<"insurance">>) THEN TRUE
       ELSE IF basename \in special_files THEN TRUE
       ELSE FALSE

PolicyIdMaxLength == 100

PolicyIdField ==
    [type |-> "string", maxLength |-> PolicyIdMaxLength,
     description |-> "Identificador unico da apolice"]

\* the in-place addition of policyId to a schema of an insurance file:
\* Ok(schema_data after the statement) or Raise
InjectPolicyId(schema_data) ==
    IF IsNone(schema_data) THEN Raise
    ELSE LET properties == Get(schema_data, "properties", EmptyDict) IN
    IF IsNone(properties) THEN Raise
    ELSE IF ~DictHas(properties, "policyId") THEN
        LET s1 == IF ~Has(schema_data, "properties")
                  THEN SetKey(schema_data, "properties", EmptyDict)
                  ELSE schema_data
            s2 == SetKey(s1, "properties",
                         DictSet(s1.properties, "policyId", PolicyIdField))
            s3 == IF ~Has(s2, "required") THEN SetKey(s2, "required", <<>>) ELSE s2
            s4 == IF ~(\E i \in 1..Len(s3.required) : s3.required[i] = "policyId")
                  THEN SetKey(s3, "required", Append(s3.required, "policyId"))
                  ELSE s3
        IN Ok(s4)
    ELSE Ok(schema_data)

(***************************************************************************)
(* allOf flattening.  Each loop is a recursion over the dict it iterates;  *)
(* pp is processed_properties, Ok(pp) or Raise.                            *)
(***************************************************************************)
RECURSIVE UnitFields(_, _, _)
UnitFields(pp, unit_properties, i) ==
    IF i > Len(unit_properties.keys) THEN Ok(pp)
    ELSE LET unit_field == unit_properties.keys[i]
             unit_data == unit_properties.vals[i]
             unit_field_name == "amount_unit_" \o unit_field
             unit_field_size == calculate_field_size(unit_field, unit_data)
         IN IF ~unit_field_size.ok THEN Raise
            ELSE UnitFields(DictSet(pp, unit_field_name,
                                    [type |-> "string",
                                     maxLength |-> unit_field_size.val]),
                            unit_properties, i + 1)

RECURSIVE AmountFields(_, _, _)
AmountFields(pp, amount_properties, i) ==
    IF i > Len(amount_properties.keys) THEN Ok(pp)
    ELSE LET sub_field == amount_properties.keys[i]
             sub_data == amount_properties.vals[i]
             field_name == "amount_" \o sub_field
             field_size == calculate_field_size(sub_field, sub_data)
             field_type == extract_field_type(sub_data)
         IN IF ~field_size.ok \/ ~field_type.ok THEN Raise
            ELSE LET pp1 == DictSet(pp, field_name,
                                    [type |-> field_type.val,
                                     maxLength |-> field_size.val])
                     pp2 == IF sub_field = "unit" /\ Has(sub_data, "properties")
                            THEN IF IsNone(sub_data.properties) THEN Raise
                                 ELSE UnitFields(pp1, sub_data.properties, 1)
                            ELSE Ok(pp1)
                 IN IF ~pp2.ok THEN Raise
                    ELSE AmountFields(pp2.val, amount_properties, i + 1)

RECURSIVE RefProperties(_, _, _)
RefProperties(pp, ref_properties, i) ==
    IF i > Len(ref_properties.keys) THEN Ok(pp)
    ELSE LET prop_name == ref_properties.keys[i]
             prop_data == ref_properties.vals[i]
         IN IF prop_name # "amount" THEN RefProperties(pp, ref_properties, i + 1)
            ELSE IF IsNone(prop_data) THEN Raise
            ELSE IF ~Has(prop_data, "properties")
                 THEN RefProperties(pp, ref_properties, i + 1)
            ELSE IF IsNone(prop_data.properties) THEN Raise
            ELSE LET pp1 == AmountFields(pp, prop_data.properties, 1)
                 IN IF ~pp1.ok THEN Raise
                    ELSE RefProperties(pp1.val, ref_properties, i + 1)

\* the test of line 158 on one allOf item (not None)
IsAmountDetailsItem(item) ==
    Has(item, "ref") /\ Contains(item.ref, <<"/", "AmountDetails">>)

RECURSIVE AllOfItems(_, _, _)
AllOfItems(pp, all_of, i) ==
    IF i > Len(all_of) THEN Ok(pp)
    ELSE LET item == all_of[i]
         IN IF IsNone(item) THEN Raise
            ELSE IF ~IsAmountDetailsItem(item) THEN AllOfItems(pp, all_of, i + 1)
            ELSE IF ~Has(item, "properties") THEN AllOfItems(pp, all_of, i + 1)
            ELSE IF IsNone(item.properties) THEN Raise
            ELSE LET pp1 == RefProperties(pp, item.properties, 1)
                 IN IF ~pp1.ok THEN Raise
                    ELSE AllOfItems(pp1.val, all_of, i + 1)

\* process_schema_fields up to its property loop: Ok(processed_properties)
\* or Raise
FlattenAllOf(schema_data) ==
    IF IsNone(schema_data) THEN Raise
    ELSE LET properties == Get(schema_data, "properties", EmptyDict)
             all_of == Get(schema_data, "allOf", <<>>)
         IN IF IsNone(properties) THEN Raise
            ELSE IF all_of # <<>> THEN AllOfItems(properties, all_of, 1)
            ELSE Ok(properties)

\* required_fields of process_schema_fields (schema_data is not None)
RequiredFields(schema_data) == Get(schema_data, "required", <<>>)

(***************************************************************************)
(* One turn of the property loop, up to the upsert: the property is        *)
(* skipped, raises (caught by the loop's except), or yields a rule_config. *)
(***************************************************************************)
\* the test of lines 208-213 without the exemption of AmountDetails
IsForeignRef_no_exemption(prop_data) == Has(prop_data, "ref")

\* the test of lines 208-213 (prop_data is not None)
IsForeignRef(prop_data) ==
    Has(prop_data, "ref") /\ ~EndsWith(prop_data.ref, <<"/", "AmountDetails">>)

\* the first three conjuncts of line 216 (prop_data is not None)
IsArrayWithItems(prop_data) ==
    Has(prop_data, "type") /\ prop_data.type = "array" /\ Has(prop_data, "items")

\* the last conjunct of line 216 (items is not None)
ItemsHaveRef(items) == Has(items, "ref")

RuleConfig(field_type, field_size, field_required, field_enum) ==
    LET rule_config == [type |-> field_type, size |-> field_size,
                        required |-> field_required]
    IN IF field_enum # <<>> THEN SetKey(rule_config, "enum_values", field_enum)
       ELSE rule_config

PropertyRule(prop_name, prop_data, required_fields, is_insurance_schema) ==
    IF IsNone(prop_data) THEN [kind |-> "raise"]
    ELSE IF is_insurance_schema /\ IsForeignRef(prop_data) THEN [kind |-> "skip"]
    ELSE IF is_insurance_schema /\ IsArrayWithItems(prop_data)
            /\ IsNone(prop_data.items) THEN [kind |-> "raise"]
    ELSE IF is_insurance_schema /\ IsArrayWithItems(prop_data)
            /\ ItemsHaveRef(prop_data.items) THEN [kind |-> "skip"]
    ELSE LET field_type == extract_field_type(prop_data)
             field_size == calculate_field_size(prop_name, prop_data)
             field_enum == Get(prop_data, "enum", <<>>)
             field_required == \E i \in 1..Len(required_fields) :
                                   required_fields[i] = prop_name
         IN IF ~field_type.ok \/ ~field_size.ok THEN [kind |-> "raise"]
            ELSE [kind |-> "rule",
                  config |-> RuleConfig(field_type.val, field_size.val,
                                        field_required, field_enum)]

(***************************************************************************)
(* The store (repository.py): three tables; a row's id is its position.    *)
(* Each upsert looks its natural key up, reuses the row found and appends  *)
(* one otherwise; a rule found gets the new body.                          *)
(***************************************************************************)
EmptyStore == [grupos |-> <<>>, conjuntos |-> <<>>, regras |-> <<>>]

\* the first of the row positions `at`, 0 if there is none
FirstRow(at) ==
    IF at = {} THEN 0 ELSE CHOOSE i \in at : \A j \in at : i <= j

upsert_grupo(st, nome) ==
    LET found == FirstRow({i \in 1..Len(st.grupos) : st.grupos[i].nome = nome})
    IN IF found # 0 THEN [store |-> st, id |-> found]
       ELSE [store |-> [st EXCEPT !.grupos = Append(@, [nome |-> nome])],
             id |-> Len(st.grupos) + 1]

upsert_conjunto_dados(st, nome, grupo_id) ==
    LET found == FirstRow({i \in 1..Len(st.conjuntos) :
                              /\ st.conjuntos[i].nome = nome
                              /\ st.conjuntos[i].grupo_id = grupo_id})
    IN IF found # 0 THEN [store |-> st, id |-> found]
       ELSE [store |-> [st EXCEPT !.conjuntos =
                            Append(@, [nome |-> nome, grupo_id |-> grupo_id])],
             id |-> Len(st.conjuntos) + 1]

\* a rule insert that does not look the natural key up
insert_regra_validacao(st, conjunto_id, campo, rule_config) ==
    [store |-> [st EXCEPT !.regras = Append(@, [conjunto_id |-> conjunto_id,
                                                campo |-> campo,
                                                config |-> rule_config])],
     id |-> Len(st.regras) + 1]

upsert_regra_validacao(st, conjunto_id, campo, rule_config) ==
    LET found == FirstRow({i \in 1..Len(st.regras) :
                              /\ st.regras[i].conjunto_id = conjunto_id
                              /\ st.regras[i].campo = campo})
        row == [conjunto_id |-> conjunto_id, campo |-> campo,
                config |-> rule_config]
    IN IF found # 0
       THEN [store |-> [st EXCEPT !.regras[found] = row], id |-> found]
       ELSE [store |-> [st EXCEPT !.regras = Append(@, row)],
             id |-> Len(st.regras) + 1]

(***************************************************************************)
(* One invocation of process_yaml_to_db, as the record of its locals.      *)
(* It advances by Step, one external call (loader, store) or one loop turn *)
(* at a time.  The calls are numbered as they are made; the call whose     *)
(* number is in `faults` raises.                                           *)
(***************************************************************************)
NewInvocation(file, api_name, faults) ==
    [pc |-> "load", file |-> file, api_name |-> api_name, faults |-> faults,
     calls |-> 0, schemas |-> EmptyDict, grupo_nome |-> "", grupo_id |-> 0,
     yaml_is_insurance |-> FALSE, si |-> 1, schema_name |-> "",
     conjunto_id |-> 0,
     required_fields |-> <<>>, processed_properties |-> EmptyDict, pi |-> 1,
     processed_count |-> 0, processed_schemas |-> <<>>, emitted |-> <<>>,
     requested |-> <<>>,
     exc |-> "none", ret |-> "none"]

\* the call about to be made raises
Faulty(w) == (w.calls + 1) \in w.faults

Called(w) == [w EXCEPT !.calls = @ + 1]

\* a return statement
Return(w, value) ==
    [w EXCEPT !.pc = "done", !.ret = IF value THEN "True" ELSE "False"]

\* a handler that lets what process_schema_fields and the injection raise
\* go through
HandleException_store_errors_only(w, origin) ==
    [w EXCEPT !.pc = "done", !.exc = origin,
              !.ret = IF origin \in {"inject", "flatten"} THEN "exception"
                      ELSE "False"]

\* the handler of lines 123-125, for an exception raised at `origin`
HandleException(w, origin) ==
    [w EXCEPT !.pc = "done", !.exc = origin, !.ret = "False"]

\* lines 115-121 deciding on the schemas met instead of those processed
ReturnOutcome_any_schema(w) == Return(w, w.schemas.keys # <<>>)

\* lines 115-121
ReturnOutcome(w) == Return(w, w.processed_schemas # <<>>)

\* lines 51-54
LoadStep(w, st) ==
    IF Faulty(w) THEN [w |-> HandleException(Called(w), "loader"), store |-> st]
    ELSE LET schemas == w.file.schemas
         IN IF schemas.keys = <<>>
            THEN [w |-> Return(Called(w), FALSE), store |-> st]
            ELSE [w |-> [Called(w) EXCEPT !.pc = "apiname", !.schemas = schemas],
                  store |-> st]

\* lines 58-63
ApiNameStep(w, st) ==
    IF Faulty(w) THEN [w |-> HandleException(Called(w), "apiname"), store |-> st]
    ELSE LET api_name_from_yaml == w.file.api_name
         IN [w |-> [Called(w) EXCEPT
                        !.pc = "grupo",
                        !.grupo_nome = IF api_name_from_yaml # ""
                                       THEN api_name_from_yaml ELSE w.api_name],
             store |-> st]

\* lines 68-73
GrupoStep(w, st) ==
    IF Faulty(w) THEN [w |-> HandleException(Called(w), "grupo"), store |-> st]
    ELSE LET r == upsert_grupo(st, w.grupo_nome)
         IN [w |-> [Called(w) EXCEPT
                        !.pc = "schema", !.grupo_id = r.id,
                        !.yaml_is_insurance =
                            is_insurance_related_file(w.file.yaml_path)],
             store |-> r.store]

\* the call of line 82: `requested` lists the names upsert_conjunto_dados
\* was called with, whether the call raised or not
CalledDataset(w, schema_name) ==
    [Called(w) EXCEPT !.requested = Append(@, schema_name)]

\* a loop that skips no schema
SkipsSchema_never(schema_name, yaml_is_insurance) == FALSE

\* line 77: the schema the loop passes over
SkipsSchema(schema_name, yaml_is_insurance) ==
    schema_name = "AmountDetails" /\ yaml_is_insurance

\* lines 75-109, up to the property loop of process_schema_fields
SchemaStep(w, st) ==
    IF w.si > Len(w.schemas.keys) THEN [w |-> ReturnOutcome(w), store |-> st]
    ELSE LET schema_name == w.schemas.keys[w.si]
             schema_data == w.schemas.vals[w.si]
         IN
    IF SkipsSchema(schema_name, w.yaml_is_insurance)
    THEN [w |-> [w EXCEPT !.si = @ + 1], store |-> st]
    ELSE IF Faulty(w)
    THEN [w |-> HandleException(CalledDataset(w, schema_name), "conjunto"),
          store |-> st]
    ELSE LET r == upsert_conjunto_dados(st, schema_name, w.grupo_id)
             w1 == [CalledDataset(w, schema_name) EXCEPT
                                     !.schema_name = schema_name,
                                     !.conjunto_id = r.id]
             injected == IF w.yaml_is_insurance THEN InjectPolicyId(schema_data)
                         ELSE Ok(schema_data)
         IN
    IF ~injected.ok THEN [w |-> HandleException(w1, "inject"), store |-> r.store]
    ELSE LET w2 == [w1 EXCEPT !.schemas.vals[w.si] = injected.val]
             flat == FlattenAllOf(injected.val)
         IN
    IF ~flat.ok THEN [w |-> HandleException(w2, "flatten"), store |-> r.store]
    ELSE [w |-> [w2 EXCEPT !.pc = "field",
                           !.required_fields = RequiredFields(injected.val),
                           !.processed_properties = flat.val,
                           !.pi = 1, !.processed_count = 0],
          store |-> r.store]

\* line 239 with the newest dataset row taken for the dataset of the schema
PersistRule_newest_dataset(w, st, prop_name, rule_config) ==
    upsert_regra_validacao(st, Len(st.conjuntos), prop_name, rule_config)

\* line 239: the rule goes under the dataset id the dataset upsert returned
PersistRule(w, st, prop_name, rule_config) ==
    upsert_regra_validacao(st, w.conjunto_id, prop_name, rule_config)

\* lines 205-245 and 111-113: one turn of the property loop, or its end
FieldStep(w, st) ==
    IF w.pi > Len(w.processed_properties.keys)
    THEN [w |-> [w EXCEPT
                     !.pc = "schema", !.si = @ + 1,
                     !.processed_schemas =
                         IF w.processed_count > 0
                         THEN Append(@, w.schemas.keys[w.si]) ELSE @],
          store |-> st]
    ELSE LET prop_name == w.processed_properties.keys[w.pi]
             prop_data == w.processed_properties.vals[w.pi]
             rule == PropertyRule(prop_name, prop_data, w.required_fields,
                                  w.yaml_is_insurance)
             next == [w EXCEPT !.pi = @ + 1]
         IN
    IF rule.kind # "rule" THEN [w |-> next, store |-> st]
    ELSE IF Faulty(w) THEN [w |-> Called(next), store |-> st]
    ELSE LET r == PersistRule(w, st, prop_name, rule.config)
         IN [w |-> [Called(next) EXCEPT
                        !.processed_count = @ + 1,
                        !.emitted = Append(@, [schema |-> w.schemas.keys[w.si],
                                               campo |-> prop_name,
                                               config |-> rule.config])],
             store |-> r.store]

Step(w, st) ==
    CASE w.pc = "load" -> LoadStep(w, st)
      [] w.pc = "apiname" -> ApiNameStep(w, st)
      [] w.pc = "grupo" -> GrupoStep(w, st)
      [] w.pc = "schema" -> SchemaStep(w, st)
      [] w.pc = "field" -> FieldStep(w, st)

RECURSIVE process_yaml_to_db(_, _)
\* a whole invocation, from the locals w and the store st
process_yaml_to_db(w, st) ==
    IF w.pc = "done" THEN [w |-> w, store |-> st]
    ELSE LET r == Step(w, st) IN process_yaml_to_db(r.w, r.store)

(***************************************************************************)
(* Inputs: fragments, schemas and files the loader can supply              *)
(***************************************************************************)
MaxProps == 2

MaxSchemas == 2

MaxCalls == 9

MaxRuns == 2

RefOwner == <<"#", "/", "Owner">>

RefAmountDetails == <<"#", "/", "AmountDetails">>

RefAmountDetailsV2 == <<"#", "/", "AmountDetails", "V2">>

Dict1(k, v) == [keys |-> <<k>>, vals |-> <<v>>]

Dict2(k1, v1, k2, v2) == [keys |-> <<k1, k2>>, vals |-> <<v1, v2>>]

CurrencyEnum == <<EnumStr("USD"), EnumStr("BRL")>>

\* a dict with the keys that are given a value
FieldData(t, m, e, r) ==
    LET ks == (IF t = {} THEN {} ELSE {"type"})
              \cup (IF m = {} THEN {} ELSE {"maxLength"})
              \cup (IF e = {} THEN {} ELSE {"enum"})
              \cup (IF r = {} THEN {} ELSE {"ref"})
        One(x) == CHOOSE v \in x : TRUE
    IN [k \in ks |-> CASE k = "type" -> One(t)
                       [] k = "maxLength" -> One(m)
                       [] k = "enum" -> One(e)
                       [] k = "ref" -> One(r)]

Optional(values) == {{}} \cup {{v} : v \in values}

\* the fragments the classifier is applied to
FieldDataSet ==
    {FieldData(t, m, e, r) :
        t \in Optional({"string", "number", "integer", "boolean", "array", "object"}),
        m \in Optional({0, 5, 50}),
        e \in Optional({<<>>, CurrencyEnum, <<EnumInt(12), EnumStr("A")>>,
                        <<EnumBool(FALSE), EnumInt(0 - 1234567)>>}),
        r \in Optional({RefOwner})}
    \cup {PyNone}

\* the fragments of a schema's first property
PropFrags ==
    {[type |-> "string", maxLength |-> 50],
     [type |-> "string"],
     [type |-> "string", enum |-> CurrencyEnum],
     [type |-> "string", enum |-> <<>>],
     [type |-> "string", maxLength |-> 0],
     [type |-> "integer"],
     [ref |-> RefOwner],
     [ref |-> RefAmountDetails],
     [type |-> "array", items |-> [ref |-> RefOwner]],
     [type |-> "array", items |-> [ref |-> RefAmountDetails]],
     [type |-> "array", items |-> [type |-> "string"]],
     PyNone}

\* the fragments of its further properties
SiblingFrags == {[type |-> "integer"], [ref |-> RefOwner], PyNone}

PropNames == <<"name", "code", "owner">>

PropDicts ==
    UNION {{[keys |-> SubSeq(PropNames, 1, k), vals |-> v] :
               v \in {u \in [1..k -> PropFrags] :
                          \A i \in 2..k : u[i] \in SiblingFrags}} :
           k \in 0..MaxProps}

\* schemas with plain properties
PlainSchemas ==
    {[properties |-> d] : d \in PropDicts}
    \cup {[properties |-> d, required |-> <<"name">>] : d \in PropDicts}

\* schemas that declare policyId themselves
PolicySchemas ==
    LET ds == {Dict1("policyId", f) :
                  f \in {[type |-> "string", maxLength |-> 20],
                         [type |-> "integer"]}}
    IN {[properties |-> d] : d \in ds}
       \cup {[properties |-> d, required |-> r] :
                 d \in ds, r \in {<<>>, <<"policyId">>}}

\* the properties of an `amount` inside an allOf item
AmountDicts ==
    {Dict1("value", [type |-> "number"]),
     Dict2("value", [type |-> "number"],
           "unit", [properties |-> Dict1("code", [type |-> "string",
                                                   enum |-> CurrencyEnum])]),
     Dict2("unit", [type |-> "object",
                    properties |-> Dict2("code", [type |-> "integer"],
                                         "description", [type |-> "string",
                                                         maxLength |-> 0])],
           "unit_code", [type |-> "boolean"]),
     Dict2("unit_code", [type |-> "boolean"],
           "unit", [properties |-> Dict1("code", [type |-> "string",
                                                   enum |-> <<>>])]),
     Dict2("value", [ref |-> RefOwner], "flags", [type |-> "array"]),
     Dict2("value", [type |-> "number"], "rate", PyNone),
     Dict1("unit", [properties |-> Dict1("code", PyNone)]),
     Dict1("unit", [properties |-> PyNone]),
     EmptyDict}

AllOfProperties ==
    {Dict1("amount", [properties |-> d]) : d \in AmountDicts}
    \cup {Dict1("amount", [type |-> "object"]),
          Dict1("amount", PyNone),
          Dict1("amount", [properties |-> PyNone]),
          Dict2("currency", PyNone,
                "amount", [properties |-> Dict1("value", [type |-> "number"])]),
          Dict1("total", [properties |-> Dict1("value", [type |-> "number"])])}

AllOfItemSet ==
    {[ref |-> r, properties |-> d] :
        r \in {RefAmountDetails, RefAmountDetailsV2, RefOwner},
        d \in AllOfProperties}
    \cup {[properties |-> d] : d \in AllOfProperties}
    \cup {[ref |-> r] : r \in {RefAmountDetails, RefOwner}}
    \cup {[ref |-> RefAmountDetails, properties |-> PyNone], PyNone}

AllOfLists ==
    {<<item>> : item \in AllOfItemSet}
    \cup {<<[ref |-> RefOwner], item>> :
              item \in {[ref |-> RefAmountDetails,
                         properties |-> Dict1("amount", [properties |-> d])] :
                            d \in AmountDicts}}

\* schemas with an allOf
AllOfSchemas ==
    {[allOf |-> a] : a \in AllOfLists}
    \cup {[properties |-> Dict2("name", [type |-> "string", maxLength |-> 50],
                                "amount_value", [type |-> "string", maxLength |-> 7]),
           required |-> <<"amount_value">>,
           allOf |-> a] : a \in AllOfLists}

\* the schemas of the documents that hold several
SmallSchemas ==
    {[properties |-> Dict1("name", [type |-> "string", maxLength |-> 50])],
     [properties |-> Dict1("owner", [ref |-> RefOwner])],
     [type |-> "object"],
     [properties |-> PyNone],
     [allOf |-> <<[ref |-> RefAmountDetails,
                   properties |-> Dict1("amount", [properties |->
                       Dict2("value", [type |-> "number"], "rate", PyNone)])]>>],
     PyNone}

SchemaNames == <<"Resource", "AmountDetails", "Owner">>

\* the schema mappings of the loader: one schema of any kind, or up to
\* MaxSchemas small ones under distinct names
SchemaDicts ==
    {Dict1("Resource", s) : s \in PlainSchemas \cup PolicySchemas \cup AllOfSchemas}
    \cup UNION {{[keys |-> ks, vals |-> vs] :
                    ks \in {u \in [1..n -> {SchemaNames[i] : i \in 1..Len(SchemaNames)}] :
                               \A i, j \in 1..n : i # j => u[i] # u[j]},
                    vs \in [1..n -> SmallSchemas]} :
                n \in 0..MaxSchemas}

YamlPaths ==
    {<<"specs", "/", "insurance", "-auto", ".yaml">>,
     <<"specs", "/", "v1", "/", "Person", ".yaml">>,
     <<"insurance", "/", "re", "insurance", ".yaml">>}

FileSet ==
    {[yaml_path |-> p, api_name |-> t, schemas |-> d] :
        p \in YamlPaths, t \in {"", "Seguros"}, d \in SchemaDicts}

FaultSets == {{}} \cup {{k} : k \in 1..MaxCalls}

\* the files of the concurrent invocations: they share schema and field
\* names, and all but the last resolve to the same group
ConcFiles ==
    {[yaml_path |-> <<"insurance", "/", "re", "insurance", ".yaml">>,
      api_name |-> "",
      schemas |-> Dict1("Resource",
          [properties |-> Dict2("name", [type |-> "string", maxLength |-> 50],
                                "code", [type |-> "integer"])])],
     [yaml_path |-> <<"specs", "/", "customers", ".yaml">>,
      api_name |-> "",
      schemas |-> Dict2("Owner",
          [properties |-> Dict1("name", [type |-> "string"])],
          "Resource",
          [properties |-> Dict2("name", [type |-> "boolean"],
                                "code", [type |-> "string",
                                         enum |-> CurrencyEnum]),
           required |-> <<"code">>])],
     [yaml_path |-> <<"specs", "/", "insurance", "-auto", ".yaml">>,
      api_name |-> "",
      schemas |-> Dict1("Resource",
          [properties |-> Dict2("name", [type |-> "string", maxLength |-> 20],
                                "owner", [ref |-> RefOwner])])],
     [yaml_path |-> <<"specs", "/", "v1", "/", "Person", ".yaml">>,
      api_name |-> "Seguros",
      schemas |-> Dict1("Resource",
          [properties |-> Dict1("name", [type |-> "string", maxLength |-> 20])])]}

Workers == {"w1", "w2"}

(***************************************************************************)
(* The specifications                                                      *)
(***************************************************************************)
Idle == [pc |-> "idle"]

NoClassification == [data |-> PyNone, done |-> FALSE, raised |-> FALSE,
                     type |-> "", size |-> 0]

InitCommon ==
    /\ store = EmptyStore
    /\ last = Idle
    /\ prev = [store |-> EmptyStore, ret |-> "none", faults |-> {}]
    /\ runs = 0

\* Sequential invocations -------------------------------------------------
Init ==
    /\ InitCommon
    /\ procs = <<>>
    /\ cf = NoClassification

\* process_yaml_to_db(file, "fallback", session), with the calls in faults
\* failing
Invoke(file, faults) ==
    LET r == process_yaml_to_db(NewInvocation(file, "fallback", faults), store)
    IN /\ store' = r.store
       /\ last' = r.w
       /\ prev' = [store |-> store,
                   ret |-> IF runs = 0 THEN "none" ELSE last.ret,
                   faults |-> IF runs = 0 THEN {} ELSE last.faults]
       /\ runs' = runs + 1
       /\ UNCHANGED <<procs, cf>>

\* an invocation: the first one on any file, with at most one call failing;
\* a further one on the same, unchanged file, with the loader and the store
\* answering every call
ProcessDocument ==
    /\ runs < MaxRuns
    /\ \E file \in IF runs = 0 THEN FileSet ELSE {last.file},
          faults \in IF runs = 0 THEN FaultSets ELSE {{}} :
           Invoke(file, faults)

Next == ProcessDocument

Spec == Init /\ [][Next]_vars

\* Concurrent invocations on one store ------------------------------------
InitConc ==
    /\ InitCommon
    /\ cf = NoClassification
    /\ procs \in [Workers -> {NewInvocation(file, "fallback", {}) :
                                  file \in ConcFiles}]

\* one worker makes its next external call or loop turn; a store call is
\* atomic
WorkerStep(p) ==
    /\ procs[p].pc # "done"
    /\ LET r == Step(procs[p], store)
       IN /\ procs' = [procs EXCEPT ![p] = r.w]
          /\ store' = r.store
    /\ UNCHANGED <<last, prev, runs, cf>>

NextConc == \E p \in Workers : WorkerStep(p)

SpecConc == InitConc /\ [][NextConc]_vars

\* The field classifier alone ---------------------------------------------
InitClassify ==
    /\ InitCommon
    /\ procs = <<>>
    /\ \E d \in FieldDataSet : cf = [NoClassification EXCEPT !.data = d]

Classify ==
    /\ ~cf.done
    /\ LET field_type == extract_field_type(cf.data)
           field_size == calculate_field_size("field", cf.data)
       IN cf' = IF field_type.ok /\ field_size.ok
                THEN [cf EXCEPT !.done = TRUE, !.type = field_type.val,
                                !.size = field_size.val]
                ELSE [cf EXCEPT !.done = TRUE, !.raised = TRUE]
    /\ UNCHANGED <<store, last, prev, runs, procs>>

NextClassify == Classify

SpecClassify == InitClassify /\ [][NextClassify]_vars

(***************************************************************************)
(* Properties                                                              *)
(***************************************************************************)
Finished == last.pc = "done"

\* the positions in w.emitted of the rules upserted for a field of a schema
RulesOf(w, schema, campo) ==
    {j \in 1..Len(w.emitted) :
        w.emitted[j].schema = schema /\ w.emitted[j].campo = campo}

\* no external call of the invocation failed and nothing reached the handler
CleanRun(w) == w.faults = {} /\ w.exc = "none"

\* C1 (as stated): process_yaml_to_db returns True exactly when at least one
\* schema had a rule upserted for it during the run, also when a later
\* schema or store call fails.
C1_TrueIffSomeSchemaProcessed ==
    Finished => (last.ret = "True" <=> last.emitted # <<>>)

\* C1 (amended): process_yaml_to_db returns True exactly when no exception
\* reached the handler of the document and at least one schema had a rule
\* upserted for it; it returns False otherwise.
C1_TrueIffProcessedAndNoException ==
    Finished =>
        /\ last.ret = "True" <=> (last.exc = "none" /\ last.emitted # <<>>)
        /\ last.ret # "True" => last.ret = "False"

\* an earlier schema was processed, then the dataset upsert of a later one
\* failed
C1_Witness ==
    /\ Finished
    /\ last.exc = "conjunto"
    /\ last.emitted # <<>>
    /\ last.ret = "False"

\* C2: every invocation ends by returning a boolean, whatever raised, and
\* returns False when the loader yields no schemas.
C2_AlwaysReturnsBoolean ==
    runs >= 1 =>
        /\ Finished
        /\ last.ret \in {"True", "False"}
        /\ last.file.schemas.keys = <<>> => last.ret = "False"

\* the flattening of a malformed fragment raised and False was returned
C2_Witness ==
    /\ Finished
    /\ last.exc = "flatten"
    /\ last.ret = "False"

\* no two rows of a table have the same natural key
UniqueKeys(st) ==
    /\ \A i, j \in 1..Len(st.grupos) :
           st.grupos[i].nome = st.grupos[j].nome => i = j
    /\ \A i, j \in 1..Len(st.conjuntos) :
           (/\ st.conjuntos[i].nome = st.conjuntos[j].nome
            /\ st.conjuntos[i].grupo_id = st.conjuntos[j].grupo_id) => i = j
    /\ \A i, j \in 1..Len(st.regras) :
           (/\ st.regras[i].conjunto_id = st.regras[j].conjunto_id
            /\ st.regras[i].campo = st.regras[j].campo) => i = j

\* C3: with a store whose calls succeed, a second invocation on the same
\* file leaves every table as the first left it, without duplicate keys,
\* and returns what the first returned.
C3_Idempotent ==
    (runs >= 2 /\ prev.faults = {} /\ last.faults = {}) =>
        /\ store = prev.store
        /\ UniqueKeys(store)
        /\ last.ret = prev.ret

\* a second invocation that found its groups, datasets and rules in place
C3_Witness ==
    /\ runs >= 2
    /\ prev.faults = {}
    /\ last.faults = {}
    /\ last.ret = "True"
    /\ Len(store.regras) >= 2
    /\ Len(last.emitted) = Len(store.regras)

\* the schema declares policyId among its properties
DeclaresPolicyId(schema_data) ==
    Has(schema_data, "properties") /\ DictHas(schema_data.properties, "policyId")

\* C4: in an insurance file every schema other than AmountDetails ends with
\* a rule policyId that is required, and that is (string, 100, required)
\* when the schema did not declare policyId.
C4_PolicyIdRequired ==
    (Finished /\ CleanRun(last) /\ last.yaml_is_insurance) =>
        \A i \in 1..Len(last.file.schemas.keys) :
            LET schema_name == last.file.schemas.keys[i]
                schema_data == last.file.schemas.vals[i]
            IN schema_name # "AmountDetails" =>
                \E j \in RulesOf(last, schema_name, "policyId") :
                    /\ last.emitted[j].config.required
                    /\ ~DeclaresPolicyId(schema_data) =>
                           last.emitted[j].config =
                               [type |-> "string", size |-> 100, required |-> TRUE]

\* the schema named by a $ref
RefTarget(ref) == AfterLast(ref, "/")

\* C5 (as stated): the properties an insurance file drops
C5_DroppedAsStated(prop_data) ==
    \/ Has(prop_data, "ref") /\ RefTarget(prop_data.ref) # <<"AmountDetails">>
    \/ /\ Has(prop_data, "type") /\ prop_data.type = "array"
       /\ Has(prop_data, "items") /\ Has(prop_data.items, "ref")
       /\ RefTarget(prop_data.items.ref) # <<"AmountDetails">>

\* C5 (amended): an array whose items carry a $ref is dropped whatever the
\* $ref names
C5_DroppedAmended(prop_data) ==
    \/ Has(prop_data, "ref") /\ RefTarget(prop_data.ref) # <<"AmountDetails">>
    \/ /\ Has(prop_data, "type") /\ prop_data.type = "array"
       /\ Has(prop_data, "items") /\ Has(prop_data.items, "ref")

\* the number of rules upserted for the k-th property of the schema
\* processed last
C5_RuleCount(k) ==
    Cardinality(RulesOf(last, last.schema_name, last.processed_properties.keys[k]))

\* C5 (as stated): in an insurance file a property yields no rule exactly
\* when it carries a $ref, itself or as the items of an array, whose target
\* is not AmountDetails, and one rule otherwise; elsewhere no property is
\* dropped for a $ref.
C5_SuppressionAsStated ==
    (Finished /\ CleanRun(last)) =>
        \A k \in 1..Len(last.processed_properties.keys) :
            LET prop_data == last.processed_properties.vals[k]
            IN ~IsNone(prop_data) =>
                   C5_RuleCount(k) =
                       IF last.yaml_is_insurance /\ C5_DroppedAsStated(prop_data)
                       THEN 0 ELSE 1

\* C5 (amended): in an insurance file a property yields no rule exactly
\* when it carries a $ref whose target is not AmountDetails, or is an array
\* whose items carry any $ref, AmountDetails included; every other property
\* yields one rule, and elsewhere no property is dropped for a $ref.
C5_SuppressionAmended ==
    (Finished /\ CleanRun(last)) =>
        \A k \in 1..Len(last.processed_properties.keys) :
            LET prop_data == last.processed_properties.vals[k]
            IN ~IsNone(prop_data) =>
                   C5_RuleCount(k) =
                       IF last.yaml_is_insurance /\ C5_DroppedAmended(prop_data)
                       THEN 0 ELSE 1

\* an insurance file dropped an array of AmountDetails and kept a direct
\* $ref to AmountDetails
C5_Witness ==
    /\ Finished /\ CleanRun(last) /\ last.yaml_is_insurance
    /\ last.processed_properties.keys = <<"name", "policyId">>
    /\ last.processed_properties.vals[1] =
           [type |-> "array", items |-> [ref |-> RefAmountDetails]]
    /\ RulesOf(last, last.schema_name, "name") = {}
    /\ RulesOf(last, last.schema_name, "policyId") # {}

\* an allOf item the claim lets contribute: its $ref ends in AmountDetails
\* and it carries properties
C6_Contributes(item) ==
    /\ ~IsNone(item)
    /\ Has(item, "ref") /\ RefTarget(item.ref) = <<"AmountDetails">>
    /\ Has(item, "properties")

\* the sub-properties of `amount` in a contributing item, EmptyDict if none
C6_AmountProperties(item) ==
    IF /\ DictHas(item.properties, "amount")
       /\ Has(DictGet(item.properties, "amount"), "properties")
    THEN DictGet(item.properties, "amount").properties
    ELSE EmptyDict

\* schema has a rule for campo with this type and size
C6_HasRule(schema, campo, type, size) ==
    \E j \in RulesOf(last, schema, campo) :
        /\ last.emitted[j].config.type = type
        /\ last.emitted[j].config.size = size

\* C6: only an allOf item whose $ref ends in AmountDetails and that carries
\* properties creates properties; of such an item every sub-property S of
\* amount yields a rule amount_S with the type and size of S, and every
\* sub-property U of its unit a rule amount_unit_U of type string with the
\* size of U.
C6_Flattening ==
    (Finished /\ CleanRun(last)) =>
        \A i \in 1..Len(last.schemas.keys) :
            LET schema_name == last.schemas.keys[i]
                schema_data == last.schemas.vals[i]
                all_of == Get(schema_data, "allOf", <<>>)
                declared == Get(schema_data, "properties", EmptyDict)
            IN ~(schema_name = "AmountDetails" /\ last.yaml_is_insurance) =>
                /\ (\A n \in 1..Len(all_of) : ~C6_Contributes(all_of[n])) =>
                       \A j \in 1..Len(last.emitted) :
                           last.emitted[j].schema = schema_name =>
                               DictHas(declared, last.emitted[j].campo)
                /\ \A n \in 1..Len(all_of) : C6_Contributes(all_of[n]) =>
                       LET amount == C6_AmountProperties(all_of[n])
                       IN \A k \in 1..Len(amount.keys) :
                           LET S == amount.keys[k]
                               sub_data == amount.vals[k]
                           IN /\ C6_HasRule(schema_name, "amount_" \o S,
                                             extract_field_type(sub_data).val,
                                             calculate_field_size(S, sub_data).val)
                              /\ (S = "unit" /\ Has(sub_data, "properties")) =>
                                     \A u \in 1..Len(sub_data.properties.keys) :
                                         C6_HasRule(
                                             schema_name,
                                             "amount_unit_" \o sub_data.properties.keys[u],
                                             "string",
                                             calculate_field_size(
                                                 sub_data.properties.keys[u],
                                                 sub_data.properties.vals[u]).val)

\* C7: the decision table of calculate_field_size.
C7_SizeTable ==
    (cf.done /\ ~IsNone(cf.data)) =>
        LET d == cf.data
            t == IF Has(d, "type") THEN d.type ELSE "string"
        IN /\ ~cf.raised
           /\ CASE t = "string" /\ Has(d, "maxLength") -> cf.size = d.maxLength
                [] t = "string" /\ ~Has(d, "maxLength") /\ Has(d, "enum") ->
                     IF d.enum = <<>> THEN cf.size = 0
                     ELSE /\ \E i \in 1..Len(d.enum) : cf.size = PyStrLen(d.enum[i])
                          /\ \A i \in 1..Len(d.enum) : cf.size >= PyStrLen(d.enum[i])
                [] t = "string" /\ ~Has(d, "maxLength") /\ ~Has(d, "enum") ->
                     cf.size = 100
                [] t \in {"number", "integer"} -> cf.size = 10
                [] OTHER -> cf.size = 1

\* an untyped fragment sized by its longest enum literal, "-1234567"
C7_Witness ==
    /\ cf.done
    /\ ~Has(cf.data, "type") /\ ~Has(cf.data, "maxLength")
    /\ Has(cf.data, "enum")
    /\ cf.data.enum = <<EnumBool(FALSE), EnumInt(0 - 1234567)>>
    /\ cf.size = 8

\* C8: every rule upserted has a size of at least 1.
C8_PositiveSizes ==
    Finished => \A j \in 1..Len(last.emitted) : last.emitted[j].config.size >= 1

\* the rows of a store by their natural keys
Contents(st) ==
    [grupos |-> {st.grupos[i].nome : i \in 1..Len(st.grupos)},
     conjuntos |-> {<<st.grupos[st.conjuntos[i].grupo_id].nome,
                      st.conjuntos[i].nome>> : i \in 1..Len(st.conjuntos)},
     regras |-> {[grupo |-> st.grupos[st.conjuntos[st.regras[i].conjunto_id]
                                          .grupo_id].nome,
                  conjunto |-> st.conjuntos[st.regras[i].conjunto_id].nome,
                  campo |-> st.regras[i].campo,
                  config |-> st.regras[i].config] : i \in 1..Len(st.regras)}]

\* the store after whole invocations on file1, then on file2
Serial(file1, file2) ==
    process_yaml_to_db(
        NewInvocation(file2, "fallback", {}),
        process_yaml_to_db(NewInvocation(file1, "fallback", {}),
                           EmptyStore).store).store

AllDone == procs # <<>> /\ \A p \in Workers : procs[p].pc = "done"

\* the natural key of a rule row of Contents
RuleKey(row) == <<row.grupo, row.conjunto, row.campo>>

\* C9 (as stated): after two concurrent invocations the store has one row
\* per natural key and the contents one of the two sequential orders gives.
C9_SerialEquivalent ==
    AllDone =>
        /\ UniqueKeys(store)
        /\ Contents(store) \in
               {Contents(Serial(procs["w1"].file, procs["w2"].file)),
                Contents(Serial(procs["w2"].file, procs["w1"].file))}

\* C9 (amended): after two concurrent invocations the store has one row per
\* natural key, the groups, datasets and rule keys that either sequential
\* order gives, and under each rule key the body that one of the two
\* sequential orders leaves there; the order may differ from key to key.
C9_PerKeyLastWrite ==
    AllDone =>
        LET ab == Contents(Serial(procs["w1"].file, procs["w2"].file))
            ba == Contents(Serial(procs["w2"].file, procs["w1"].file))
            got == Contents(store)
        IN /\ UniqueKeys(store)
           /\ got.grupos = ab.grupos /\ got.grupos = ba.grupos
           /\ got.conjuntos = ab.conjuntos /\ got.conjuntos = ba.conjuntos
           /\ {RuleKey(row) : row \in got.regras} = {RuleKey(row) : row \in ab.regras}
           /\ {RuleKey(row) : row \in got.regras} = {RuleKey(row) : row \in ba.regras}
           /\ got.regras \subseteq ab.regras \cup ba.regras

\* two invocations on different files of one group wrote the same two rule
\* keys, and the store holds one body of each
C9_Witness ==
    /\ AllDone
    /\ procs["w1"].file # procs["w2"].file
    /\ procs["w1"].grupo_nome = procs["w2"].grupo_nome
    /\ \E j, k \in 1..Len(procs["w1"].emitted) :
           /\ j # k
           /\ \A n \in {j, k} : \E m \in 1..Len(procs["w2"].emitted) :
                  /\ procs["w2"].emitted[m].schema = procs["w1"].emitted[n].schema
                  /\ procs["w2"].emitted[m].campo = procs["w1"].emitted[n].campo
                  /\ procs["w2"].emitted[m].config # procs["w1"].emitted[n].config
           /\ \E a, b \in 1..Len(store.regras) :
                  /\ store.regras[a].campo = procs["w1"].emitted[j].campo
                  /\ store.regras[a].config = procs["w1"].emitted[j].config
                  /\ store.regras[b].campo = procs["w1"].emitted[k].campo
                  /\ store.regras[b].config # procs["w1"].emitted[k].config

\* every schema of the file is a mapping whose properties, if any, are one
C10_SchemasAreMappings(file) ==
    \A i \in 1..Len(file.schemas.keys) :
        /\ ~IsNone(file.schemas.vals[i])
        /\ ~IsNone(Get(file.schemas.vals[i], "properties", EmptyDict))

\* C10: a property that cannot be classified or persisted, a sub-fragment
\* met while flattening allOf included, yields no rule and is not counted,
\* and aborts neither its schema nor the schemas after it: the exception
\* handler of the document is not reached, and every declared property of
\* every schema that yields a rule has its rule upserted unless its own
\* upsert failed.
C10_PropertyFailureIsolated ==
    (/\ Finished
     /\ C10_SchemasAreMappings(last.file)
     /\ last.exc \notin {"loader", "apiname", "grupo", "conjunto"}
     /\ last.file.schemas.keys # <<>>) =>
        /\ last.exc = "none"
        /\ \A i \in 1..Len(last.schemas.keys) :
               LET schema_name == last.schemas.keys[i]
                   schema_data == last.schemas.vals[i]
                   declared == Get(schema_data, "properties", EmptyDict)
               IN ~(schema_name = "AmountDetails" /\ last.yaml_is_insurance) =>
                   \A k \in 1..Len(declared.keys) :
                       LET rule == PropertyRule(declared.keys[k], declared.vals[k],
                                                RequiredFields(schema_data),
                                                last.yaml_is_insurance)
                           rules == RulesOf(last, schema_name, declared.keys[k])
                       IN /\ rule.kind # "rule" => rules = {}
                          /\ (rule.kind = "rule" /\ last.faults = {}) => rules # {}
        /\ last.processed_count =
               Cardinality({j \in 1..Len(last.emitted) :
                               last.emitted[j].schema = last.schema_name})

\* the document of the invocation has a schema named AmountDetails
C11_HasAmountDetails(w) ==
    \E i \in 1..Len(w.file.schemas.keys) : w.file.schemas.keys[i] = "AmountDetails"

\* the invocation called upsert_conjunto_dados with the name AmountDetails,
\* the store holds a dataset of that name, or a rule was upserted for it
C11_Persisted(w, st) ==
    \/ \E i \in 1..Len(w.requested) : w.requested[i] = "AmountDetails"
    \/ \E i \in 1..Len(st.conjuntos) : st.conjuntos[i].nome = "AmountDetails"
    \/ \E j \in 1..Len(w.emitted) : w.emitted[j].schema = "AmountDetails"

\* C11 (as stated): in no invocation, whatever the document, is the dataset
\* upsert called with the name AmountDetails, and no rule is upserted under
\* a dataset of that name.
C11_NeverPersisted == Finished => ~C11_Persisted(last, store)

\* C11 (amended): when the file is insurance related, no invocation calls
\* the dataset upsert with the name AmountDetails or upserts a rule under
\* such a dataset; when it is not, an invocation that visits every schema of
\* a document holding AmountDetails does call the dataset upsert with that
\* name.
C11_NeverPersistedWhenInsurance ==
    Finished =>
        IF is_insurance_related_file(last.file.yaml_path)
        THEN ~C11_Persisted(last, store)
        ELSE (CleanRun(last) /\ C11_HasAmountDetails(last))
                 => \E i \in 1..Len(last.requested) :
                        last.requested[i] = "AmountDetails"

\* an insurance file whose first schema is AmountDetails was processed, and
\* a later schema of it got its dataset and a rule
C11_Witness ==
    /\ Finished
    /\ is_insurance_related_file(last.file.yaml_path)
    /\ Len(last.file.schemas.keys) >= 2
    /\ last.file.schemas.keys[1] = "AmountDetails"
    /\ last.requested # <<>>
    /\ last.processed_schemas # <<>>
    /\ last.ret = "True"

====
